---- MODULE Spec2Model ----
(***************************************************************************)
(* Model of the render-web-page endpoint of gaze-heatmap-nuxt              *)
(* (src/server/api/render-web-page/index.post.ts).                         *)
(*                                                                         *)
(* Two specifications share this module:                                   *)
(*   Spec        - the event handler: concurrent requests, each from       *)
(*                 readBody to the response, with the browser life cycle;  *)
(*   SpecOverlay - createHeatmapOverlay: the accumulation loop over the    *)
(*                 points, one point per step, followed by the colour      *)
(*                 mapping loop.                                           *)
(*                                                                         *)
(* Arithmetic.  TLC has integers only, so the floating point quantities    *)
(* of the source are held in fixed point:                                  *)
(*   - a coordinate c is held as c * Sub (point.x = -29.5 is -59 for       *)
(*     Sub = 2); pixel coordinates stay integers;                          *)
(*   - a distance d is held as floor(d * Sub * Prec);                      *)
(*   - an intensity i is held as i * One, where One is chosen so that      *)
(*     (1 - d/radius) * 0.4 is exactly RadiusS - d in these units;         *)
(*   - a hue h is held as h * HOne, with HOne = 6 * One so that 1/6, 1/3,  *)
(*     1/2 and 2/3 are integers.                                           *)
(* The comparison distance < radius is made on the squared distance, which *)
(* is exact.                                                               *)
(* The rounding of the Float32Array and of double arithmetic is not        *)
(* modelled: the arithmetic here is exact up to the distance resolution.   *)
(***************************************************************************)
EXTENDS Integers, Sequences, FiniteSets, TLC

VARIABLES
    \* ---- createHeatmapOverlay (SpecOverlay) ----
    width,          \* parameter width
    height,         \* parameter height
    intensityMap,   \* Float32Array(width * height), index y * width + x
    seen,           \* history: how many times each point was processed so far
    stage,          \* "accumulate" (inside points.forEach) or "colorized"
    data,           \* imageData.data as one <<r, g, b, a>> per pixel
    \* ---- defineEventHandler (Spec) ----
    pc,             \* per request: the await the request is suspended at
    body,           \* per request: the value readBody returned
    browser,        \* per request: the const browser (0 before the launch)
    browsers,       \* the browser processes launched so far, by process id
    shot,           \* per request: the screenshot page.screenshot returned
    heatmap,        \* per request: heatmapBuffer (NoImage for null)
    final,          \* per request: the canvas after the drawImage calls
    result,         \* per request: what the caller receives
    hist            \* per request: history of the calls the request made

overlayVars == <<width, height, intensityMap, seen, stage, data>>
handlerVars == <<pc, body, browser, browsers, shot, heatmap, final, result, hist>>
vars == <<width, height, intensityMap, seen, stage, data,
          pc, body, browser, browsers, shot, heatmap, final, result, hist>>

Min(a, b) == IF a < b THEN a ELSE b
Max(a, b) == IF a > b THEN a ELSE b

-----------------------------------------------------------------------------
(* Bounds of the model *)

\* sub-pixel resolution of the point coordinates (2: halves of a pixel)
Sub == 2
\* resolution of a distance, in steps per coordinate unit
Prec == 256
\* largest raster width and height explored by SpecOverlay
MaxWidth == 2
MaxHeight == 1
\* largest number of points processed by one points.forEach
MaxPoints == 14

-----------------------------------------------------------------------------
(* Constants of createHeatmapOverlay *)

radius == 30
maxPointsPerPixel == 5
MaxAlpha == 180

RadiusS == radius * Sub * Prec            \* radius as a distance
One == (RadiusS * 5) \div 2               \* intensity 1.0 (0.4 = 2/5 of RadiusS)
Cap == maxPointsPerPixel * One            \* intensity 5.0
HOne == 6 * One                           \* hue 1.0

-----------------------------------------------------------------------------
(* Math.sqrt, rounded down to the distance resolution *)

RECURSIVE SqrtIter(_, _, _)
SqrtIter(n, lo, hi) ==
    IF lo >= hi THEN lo
    ELSE LET mid == (lo + hi + 1) \div 2
         IN  IF mid * mid <= n THEN SqrtIter(n, mid, hi)
                               ELSE SqrtIter(n, lo, mid - 1)

ISqrt(n) == SqrtIter(n, 0, Min(n, 46340))

\* dx * dx + dy * dy for pixel (x, y), in squared coordinate units
Dist2(point, x, y) ==
    LET dx == point.x - x * Sub
        dy == point.y - y * Sub
    IN  dx * dx + dy * dy

\* distance = Math.sqrt(dx * dx + dy * dy), as a distance
Distance(point, x, y) == ISqrt(Dist2(point, x, y) * Prec * Prec)

\* a mutant of WithinRadius: the test distance < radius left out
AlwaysWithin(point, x, y) == TRUE

\* if (distance < radius)
WithinRadius(point, x, y) == Dist2(point, x, y) < (radius * Sub) * (radius * Sub)

\* intensity = (1 - distance / radius) * 0.4
PointIntensity(point, x, y) == RadiusS - Distance(point, x, y)

\* the loop bounds x0 <= x < x1, y0 <= y < y1 of one point
InBox(point, x, y, w, h) ==
    LET x0 == Max(0, (point.x - radius * Sub) \div Sub)
        x1 == Min(w, (point.x + radius * Sub) \div Sub)
        y0 == Max(0, (point.y - radius * Sub) \div Sub)
        y1 == Min(h, (point.y + radius * Sub) \div Sub)
    IN  x0 <= x /\ x < x1 /\ y0 <= y /\ y < y1

\* a mutant of ClampAccum: the cap left out
NoClamp(v) == v

\* Math.min(intensityMap[index] + intensity, maxPointsPerPixel)
ClampAccum(v) == Min(v, Cap)

Pixels(w, h) == 0 .. (w * h - 1)

\* new Float32Array(width * height)
ZeroMap(w, h) == [i \in Pixels(w, h) |-> 0]

\* what the two for loops of one point make of the value v of pixel (x, y):
\* the pixel is visited when it is within the loop bounds
AccumulatePixel(v, point, x, y, w, h) ==
    IF InBox(point, x, y, w, h) /\ WithinRadius(point, x, y)
    THEN ClampAccum(v + PointIntensity(point, x, y))
    ELSE v

\* the body of points.forEach for one point: both for loops
AccumulatePoint(map, point, w, h) ==
    [i \in Pixels(w, h) |-> AccumulatePixel(map[i], point, i % w, i \div w, w, h)]

\* points.forEach over a whole array
RECURSIVE AccumulateAll(_, _, _, _)
AccumulateAll(map, points, w, h) ==
    IF points = <<>> THEN map
    ELSE AccumulateAll(AccumulatePoint(map, Head(points), w, h), Tail(points), w, h)

-----------------------------------------------------------------------------
(* hslToRgb and the colour mapping loop *)

\* hue2rgb(p, q, t): p and q in halves, t a hue; the result is in units of
\* 1 / (2 * HOne)
hue2rgb(p, q, t) ==
    LET t1 == IF t < 0 THEN t + HOne ELSE t
        t2 == IF t1 > HOne THEN t1 - HOne ELSE t1
    IN  IF 6 * t2 < HOne THEN p * HOne + (q - p) * 6 * t2
        ELSE IF 2 * t2 < HOne THEN q * HOne
        ELSE IF 3 * t2 < 2 * HOne THEN p * HOne + (q - p) * (4 * One - t2) * 6
        ELSE p * HOne

\* Math.round(c * 255) for a channel c >= 0 in units of 1 / (2 * HOne)
Round255(c) == (2 * c * 255 + 2 * HOne) \div (4 * HOne)

\* hslToRgb(h, s, l) with s and l in halves (s = 2 is 1.0, l = 1 is 0.5)
hslToRgb(h, s, l) ==
    IF s = 0 THEN <<Round255(l * HOne), Round255(l * HOne), Round255(l * HOne)>>
    ELSE LET q == IF l < 1 THEN (l * (2 + s)) \div 2 ELSE l + s - (l * s) \div 2
             p == 2 * l - q
         IN  <<Round255(hue2rgb(p, q, h + 2 * One)),
               Round255(hue2rgb(p, q, h)),
               Round255(hue2rgb(p, q, h - 2 * One))>>

\* a mutant of HueOf: the ramp reversed (hot is blue)
HueReversed(intensity) == intensity * 4

\* hue = (1 - intensity) * (240 / 360)
HueOf(intensity) == (One - intensity) * 4

\* the store of a number n / d >= 0 into a Uint8ClampedArray element:
\* round to nearest, ties to even, clamp to 255
ToUint8Clamped(n, d) ==
    LET f == n \div d
        r == n % d
        v == IF 2 * r > d THEN f + 1
             ELSE IF 2 * r < d THEN f
             ELSE IF f % 2 = 0 THEN f ELSE f + 1
    IN  Min(v, 255)

\* one iteration of the colour mapping loop: the four bytes of a pixel
ColorOf(v) ==
    LET intensity == Min(v, One)
    IN  IF intensity > 0
        THEN LET rgb == hslToRgb(HueOf(intensity), 2, 1)
             IN  <<rgb[1], rgb[2], rgb[3], ToUint8Clamped(intensity * MaxAlpha, One)>>
        ELSE <<0, 0, 0, 0>>

\* the colour mapping loop over the whole intensity map
ColorizeMap(map) == [i \in DOMAIN map |-> ColorOf(map[i])]

\* createHeatmapOverlay(points, width, height): the overlay raster
createHeatmapOverlay(points, w, h) ==
    [width |-> w, height |-> h,
     pixels |-> ColorizeMap(AccumulateAll(ZeroMap(w, h), points, w, h))]

-----------------------------------------------------------------------------
(* SpecOverlay: createHeatmapOverlay, one point of points.forEach per step *)

\* the points a caller may pass: at the centre of pixel (0, 0), a fraction of
\* a pixel off it, left of the raster within the radius of pixel (0, 0), and
\* right of it at the radius and just beyond the radius of pixel (0, 0)
PointSet ==
    { [x |-> 0, y |-> 0],
      [x |-> 1, y |-> 0],
      [x |-> 1 - radius * Sub, y |-> 0],
      [x |-> radius * Sub, y |-> 0],
      [x |-> radius * Sub + 1, y |-> 1] }

NumSeen == LET RECURSIVE Count(_)
               Count(S) == IF S = {} THEN 0
                           ELSE LET p == CHOOSE q \in S : TRUE
                                IN  seen[p] + Count(S \ {p})
           IN  Count(PointSet)

OverlayIdle ==
    /\ width = 1
    /\ height = 1
    /\ intensityMap = ZeroMap(1, 1)
    /\ seen = [p \in PointSet |-> 0]
    /\ stage = "accumulate"
    /\ data = <<>>

\* lines 37-48: the call, with an all-zero intensity map
OverlayInit ==
    /\ width \in 1 .. MaxWidth
    /\ height \in 1 .. MaxHeight
    /\ intensityMap = ZeroMap(width, height)
    /\ seen = [p \in PointSet |-> 0]
    /\ stage = "accumulate"
    /\ data = <<>>

\* lines 50-68: one iteration of points.forEach
ForEachPoint ==
    /\ stage = "accumulate"
    /\ NumSeen < MaxPoints
    /\ \E point \in PointSet :
          /\ intensityMap' = AccumulatePoint(intensityMap, point, width, height)
          /\ seen' = [seen EXCEPT ![point] = @ + 1]
    /\ UNCHANGED <<width, height, stage, data>>
    /\ UNCHANGED handlerVars

\* lines 70-85: the colour mapping loop, once points.forEach has returned
Colorize ==
    /\ stage = "accumulate"
    /\ data' = ColorizeMap(intensityMap)
    /\ stage' = "colorized"
    /\ UNCHANGED <<width, height, intensityMap, seen>>
    /\ UNCHANGED handlerVars

OverlayNext == ForEachPoint \/ Colorize

-----------------------------------------------------------------------------
(* Spec: defineEventHandler *)

\* number of requests handled concurrently
NumRequests == 2

Requests == 1 .. NumRequests

\* JSON values of a request body, each with its typeof tag
Undef == [t |-> "undefined", v |-> <<>>]
Str == [t |-> "string", v |-> <<>>]
Num(n) == [t |-> "number", v |-> <<n>>]
Arr(s) == [t |-> "array", v |-> s]
Obj(px, py) == [t |-> "object", v |-> <<px, py>>]

\* the bodies a caller may send
BodyList ==
    << [url |-> Str, width |-> Num(1), height |-> Num(1), points |-> Undef],
       [url |-> Str, width |-> Num(1), height |-> Num(1), points |-> Arr(<<>>)],
       [url |-> Str, width |-> Num(1), height |-> Num(1),
        points |-> Arr(<<Obj(Num(0), Num(0)), Obj(Num(0), Num(0)), Obj(Num(0), Num(0))>>)],
       [url |-> Undef, width |-> Num(1), height |-> Num(1), points |-> Undef],
       [url |-> Num(1), width |-> Num(1), height |-> Num(1), points |-> Arr(<<>>)],
       [url |-> Str, width |-> Str, height |-> Num(1), points |-> Undef],
       [url |-> Str, width |-> Num(1), height |-> Undef, points |-> Undef],
       [url |-> Str, width |-> Num(1), height |-> Num(1), points |-> Str],
       [url |-> Str, width |-> Num(1), height |-> Num(1),
        points |-> Arr(<<Obj(Num(0), Num(0)), Obj(Str, Num(0))>>)] >>

IsPointObject(e) ==
    /\ e.t = "object"
    /\ e.v[1].t = "number"
    /\ e.v[2].t = "number"

\* a mutant of renderWebPageSchema: url: z.string() left out
SchemaWithoutUrl(b) ==
    /\ b.width.t = "number"
    /\ b.height.t = "number"
    /\ \/ b.points.t = "undefined"
       \/ /\ b.points.t = "array"
          /\ \A i \in 1 .. Len(b.points.v) : IsPointObject(b.points.v[i])

\* renderWebPageSchema.parse(body) does not throw
renderWebPageSchema(b) ==
    /\ b.url.t = "string"
    /\ b.width.t = "number"
    /\ b.height.t = "number"
    /\ \/ b.points.t = "undefined"
       \/ /\ b.points.t = "array"
          /\ \A i \in 1 .. Len(b.points.v) : IsPointObject(b.points.v[i])

\* the parsed points of a valid body, as points of createHeatmapOverlay
ParsedPoints(b) ==
    [i \in 1 .. Len(b.points.v) |->
        [x |-> b.points.v[i].v[1].v[1] * Sub, y |-> b.points.v[i].v[2].v[1] * Sub]]

\* the truthiness of the parsed points in "points ? ... : null": undefined is
\* falsy, every array (the empty one too) is truthy
Truthy(val) == val.t # "undefined"

NoImage == [width |-> 0, height |-> 0, pixels |-> <<>>]

\* the full-page screenshots the browser may return, as RGB rasters
ShotList ==
    << [width |-> 1, height |-> 1, pixels |-> [i \in Pixels(1, 1) |-> <<255, 255, 255>>]],
       [width |-> 1, height |-> 1, pixels |-> [i \in Pixels(1, 1) |-> <<10, 20, 30>>]] >>

\* a mutant of Over: the overlay pixel written over the screenshot pixel with
\* its alpha ignored
OverOpaque(ov, base) == <<ov[1], ov[2], ov[3]>>

\* ctx.drawImage(heatmapImage, 0, 0) on the canvas holding the screenshot:
\* source-over of one overlay pixel on one opaque pixel
Over(ov, base) ==
    [c \in 1 .. 3 |-> ToUint8Clamped(ov[c] * ov[4] + base[c] * (255 - ov[4]), 255)]

\* lines 134-144: the canvas after the drawImage calls
Composite(screenshotImage, heatmapImage) ==
    IF heatmapImage = NoImage THEN screenshotImage
    ELSE [screenshotImage EXCEPT
             !.pixels = [i \in DOMAIN screenshotImage.pixels |->
                            Over(heatmapImage.pixels[i], screenshotImage.pixels[i])]]

Pending == [kind |-> "pending", statusCode |-> 0, message |-> "", image |-> NoImage]
\* line 148: the return value
Success(img) == [kind |-> "ok", statusCode |-> 200, message |-> "", image |-> img]
\* lines 151-154: createError
GenericFailure ==
    [kind |-> "error", statusCode |-> 500,
     message |-> "Failed to capture screenshot", image |-> NoImage]
\* an error that leaves the handler as it was thrown
Thrown(what) == [kind |-> "thrown", statusCode |-> 0, message |-> what, image |-> NoImage]

\* the failure kind recorded for a call that rejected or threw
FailureKind(at) ==
    CASE at \in {"readBody", "parse"} -> at
      [] at = "launch" -> "launch"
      [] at = "goto" -> "navigation"
      [] at \in {"newPage", "setViewport", "screenshot"} -> "capture"
      [] OTHER -> "internal"

NoHist == [launches |-> 0, closes |-> 0, gotos |-> 0, overlays |-> 0,
           draws |-> 0, failed |-> "none"]

HandlerInit ==
    /\ pc = [r \in Requests |-> "readBody"]
    /\ body = [r \in Requests |-> BodyList[1]]
    /\ browser = [r \in Requests |-> 0]
    /\ browsers = <<>>
    /\ shot = [r \in Requests |-> NoImage]
    /\ heatmap = [r \in Requests |-> NoImage]
    /\ final = [r \in Requests |-> NoImage]
    /\ result = [r \in Requests |-> Pending]
    /\ hist = [r \in Requests |-> NoHist]

\* the id of the process a launch by request r spawns: a new process, which
\* no other launch spawns
NewProcess(r) == r

\* a mutant of BrowserOf: a pooled browser, every request taking a browser
\* that is already there
PooledBrowser(r) ==
    IF DOMAIN browsers = {} THEN browser[r] ELSE CHOOSE b \in DOMAIN browsers : TRUE

\* the const browser of request r (line 97)
BrowserOf(r) == browser[r]

\* request r makes a call on its browser
Used(bs, r) ==
    IF BrowserOf(r) \in DOMAIN bs
    THEN [bs EXCEPT ![BrowserOf(r)].usedBy = @ \cup {r}]
    ELSE bs

\* browser.close() by request r; stopped tells whether the process ended
Closed(bs, r, stopped) ==
    IF BrowserOf(r) \in DOMAIN bs
    THEN [bs EXCEPT ![BrowserOf(r)].usedBy = @ \cup {r},
                    ![BrowserOf(r)].running = @ /\ ~stopped]
    ELSE bs

\* lines 95-96: await readBody(event), then renderWebPageSchema.parse(body),
\* which throws on a body the schema rejects
ReadBody(r) ==
    /\ pc[r] = "readBody"
    /\ \/ \E i \in 1 .. Len(BodyList) :
            /\ body' = [body EXCEPT ![r] = BodyList[i]]
            /\ IF renderWebPageSchema(BodyList[i])
               THEN /\ pc' = [pc EXCEPT ![r] = "launch"]
                    /\ UNCHANGED <<result, hist>>
               ELSE /\ pc' = [pc EXCEPT ![r] = "done"]
                    /\ result' = [result EXCEPT ![r] = Thrown("ZodError")]
                    /\ hist' = [hist EXCEPT ![r].failed = FailureKind("parse")]
       \/ /\ pc' = [pc EXCEPT ![r] = "done"]
          /\ result' = [result EXCEPT ![r] = Thrown("readBody")]
          /\ hist' = [hist EXCEPT ![r].failed = FailureKind("readBody")]
          /\ UNCHANGED body
    /\ UNCHANGED <<browser, browsers, shot, heatmap, final>>
    /\ UNCHANGED overlayVars

\* lines 97-119: await puppeteer.launch(...)
Launch(r) ==
    /\ pc[r] = "launch"
    /\ \/ /\ browsers' = browsers @@
                 (NewProcess(r) :> [launchedBy |-> r, running |-> TRUE, usedBy |-> {}])
          /\ browser' = [browser EXCEPT ![r] = NewProcess(r)]
          /\ hist' = [hist EXCEPT ![r].launches = @ + 1]
          /\ pc' = [pc EXCEPT ![r] = "newPage"]
          /\ UNCHANGED result
       \/ /\ pc' = [pc EXCEPT ![r] = "done"]
          /\ result' = [result EXCEPT ![r] = Thrown("launch")]
          /\ hist' = [hist EXCEPT ![r].failed = FailureKind("launch")]
          /\ UNCHANGED <<browser, browsers>>
    /\ UNCHANGED <<body, shot, heatmap, final>>
    /\ UNCHANGED overlayVars

\* the try block of request r is left: its images go out of scope
Dropped(r) ==
    /\ shot' = [shot EXCEPT ![r] = NoImage]
    /\ heatmap' = [heatmap EXCEPT ![r] = NoImage]
    /\ final' = [final EXCEPT ![r] = NoImage]

\* an awaited call on the page of request r's browser that either resolves,
\* and the handler goes on to the next await, or rejects, and the catch block
\* starts
PageStep(r, at, next) ==
    /\ pc[r] = at
    /\ browsers' = Used(browsers, r)
    /\ \/ /\ pc' = [pc EXCEPT ![r] = next]
          /\ hist' = [hist EXCEPT ![r].gotos = IF at = "goto" THEN @ + 1 ELSE @]
       \/ /\ pc' = [pc EXCEPT ![r] = "catch"]
          /\ hist' = [hist EXCEPT ![r].gotos = IF at = "goto" THEN @ + 1 ELSE @,
                                  ![r].failed = FailureKind(at)]
    /\ UNCHANGED <<body, browser, shot, heatmap, final, result>>
    /\ UNCHANGED overlayVars

\* line 122: await browser.newPage()
NewPage(r) ==
    /\ pc[r] = "newPage"
    /\ PageStep(r, "newPage", "setViewport")

\* line 123: await page.setViewport(...)
SetViewport(r) ==
    /\ pc[r] = "setViewport"
    /\ PageStep(r, "setViewport", "goto")

\* line 124: await page.goto(url, ...); a navigation timeout is a rejection
Goto(r) ==
    /\ pc[r] = "goto"
    /\ PageStep(r, "goto", "screenshot")

\* line 126: await page.screenshot(...)
Screenshot(r) ==
    /\ pc[r] = "screenshot"
    /\ browsers' = Used(browsers, r)
    /\ \/ /\ \E i \in 1 .. Len(ShotList) : shot' = [shot EXCEPT ![r] = ShotList[i]]
          /\ pc' = [pc EXCEPT ![r] = "loadImage"]
          /\ UNCHANGED hist
       \/ /\ pc' = [pc EXCEPT ![r] = "catch"]
          /\ hist' = [hist EXCEPT ![r].failed = FailureKind("screenshot")]
          /\ UNCHANGED shot
    /\ UNCHANGED <<body, browser, heatmap, final, result>>
    /\ UNCHANGED overlayVars

\* lines 128-137, and 139-146 when there is no heatmapBuffer to load:
\* await loadImage(screenshotBuffer), then the overlay branch
LoadImage(r) ==
    /\ pc[r] = "loadImage"
    /\ \/ IF Truthy(body[r].points)
          THEN /\ heatmap' = [heatmap EXCEPT ![r] =
                      createHeatmapOverlay(ParsedPoints(body[r]),
                                           shot[r].width, shot[r].height)]
               /\ hist' = [hist EXCEPT ![r].overlays = @ + 1]
               /\ pc' = [pc EXCEPT ![r] = "loadHeatmap"]
               /\ UNCHANGED <<shot, final>>
          ELSE /\ final' = [final EXCEPT ![r] = Composite(shot[r], NoImage)]
               /\ pc' = [pc EXCEPT ![r] = "close"]
               /\ UNCHANGED <<shot, heatmap, hist>>
       \/ /\ pc' = [pc EXCEPT ![r] = "catch"]
          /\ hist' = [hist EXCEPT ![r].failed = FailureKind("loadImage")]
          /\ Dropped(r)
    /\ UNCHANGED <<body, browser, browsers, result>>
    /\ UNCHANGED overlayVars

\* lines 137-146: await loadImage(heatmapBuffer), then both drawImage calls
LoadHeatmap(r) ==
    /\ pc[r] = "loadHeatmap"
    /\ \/ /\ final' = [final EXCEPT ![r] = Composite(shot[r], heatmap[r])]
          /\ hist' = [hist EXCEPT ![r].draws = @ + 1]
          /\ pc' = [pc EXCEPT ![r] = "close"]
          /\ UNCHANGED <<shot, heatmap>>
       \/ /\ pc' = [pc EXCEPT ![r] = "catch"]
          /\ hist' = [hist EXCEPT ![r].failed = FailureKind("loadHeatmap")]
          /\ Dropped(r)
    /\ UNCHANGED <<body, browser, browsers, result>>
    /\ UNCHANGED overlayVars

\* lines 146-148: await browser.close() in the try block, then the return.
\* A close that rejects may or may not have ended the process.
Close(r) ==
    /\ pc[r] = "close"
    /\ \/ /\ browsers' = Closed(browsers, r, TRUE)
          /\ result' = [result EXCEPT ![r] = Success(final[r])]
          /\ hist' = [hist EXCEPT ![r].closes = @ + 1]
          /\ pc' = [pc EXCEPT ![r] = "done"]
          /\ Dropped(r)
       \/ /\ \E stopped \in BOOLEAN : browsers' = Closed(browsers, r, stopped)
          /\ hist' = [hist EXCEPT ![r].closes = @ + 1, ![r].failed = FailureKind("close")]
          /\ pc' = [pc EXCEPT ![r] = "catch"]
          /\ Dropped(r)
          /\ UNCHANGED result
    /\ UNCHANGED <<body, browser>>
    /\ UNCHANGED overlayVars

\* lines 149-155: the catch block: await browser.close(), then throw createError
CatchClose(r) ==
    /\ pc[r] = "catch"
    /\ \/ /\ browsers' = Closed(browsers, r, TRUE)
          /\ result' = [result EXCEPT ![r] = GenericFailure]
       \/ /\ \E stopped \in BOOLEAN : browsers' = Closed(browsers, r, stopped)
          /\ result' = [result EXCEPT ![r] = Thrown("close")]
    /\ hist' = [hist EXCEPT ![r].closes = @ + 1]
    /\ pc' = [pc EXCEPT ![r] = "done"]
    /\ Dropped(r)
    /\ UNCHANGED <<body, browser>>
    /\ UNCHANGED overlayVars

Next ==
    \E r \in Requests :
        \/ ReadBody(r)
        \/ Launch(r)
        \/ NewPage(r)
        \/ SetViewport(r)
        \/ Goto(r)
        \/ Screenshot(r)
        \/ LoadImage(r)
        \/ LoadHeatmap(r)
        \/ Close(r)
        \/ CatchClose(r)

Init ==
    /\ HandlerInit
    /\ OverlayIdle

Spec == Init /\ [][Next]_vars

\* createHeatmapOverlay alone, with no request in flight
InitOverlay ==
    /\ OverlayInit
    /\ HandlerInit

SpecOverlay == InitOverlay /\ [][OverlayNext]_vars

-----------------------------------------------------------------------------
(* Properties of createHeatmapOverlay, checked under SpecOverlay *)

\* what a single point adds to pixel i of an all-zero intensity map
Single(point, i) ==
    AccumulatePixel(0, point, i % width, i \div width, width, height)

\* the sum over all the points processed so far of what each adds to pixel i
SumOfSingles(i) ==
    LET RECURSIVE Sum(_)
        Sum(S) == IF S = {} THEN 0
                  ELSE LET p == CHOOSE q \in S : TRUE
                       IN  seen[p] * Single(p, i) + Sum(S \ {p})
    IN  Sum(PointSet)

\* C5: after each point of points.forEach, every pixel of the intensity map is
\* at least 0 and at most the cap of 5.0, whatever the points, those outside
\* the raster included.
C5_IntensityInRange ==
    \A i \in DOMAIN intensityMap : 0 <= intensityMap[i] /\ intensityMap[i] <= Cap

\* C5 witness: the points add up to more than 5.0 at a pixel, which holds 5.0.
C5_Witness ==
    \E i \in DOMAIN intensityMap : SumOfSingles(i) > Cap /\ intensityMap[i] = Cap

\* (1 - d/radius) * 0.4 for a pixel at distance d < radius of the point and 0
\* for a pixel at distance d >= radius, whatever the loop bounds
RadialFalloff(point, x, y) ==
    IF Dist2(point, x, y) < (radius * Sub) * (radius * Sub)
    THEN RadiusS - Distance(point, x, y)
    ELSE 0

\* C6: a single point accumulated on an all-zero map gives every pixel of the
\* raster (1 - d/radius) * 0.4 > 0 when its distance d to the point is below
\* the radius and 0 otherwise, so that no pixel within the radius is skipped
\* and a nearer pixel never gets less than a farther one.
C6_SinglePointFalloff ==
    \A point \in PointSet :
        (stage = "accumulate" /\ NumSeen = 1 /\ seen[point] = 1) =>
            /\ \A i \in DOMAIN intensityMap :
                  /\ intensityMap[i] = RadialFalloff(point, i % width, i \div width)
                  /\ (Dist2(point, i % width, i \div width)
                         < (radius * Sub) * (radius * Sub)) => intensityMap[i] > 0
            /\ \A i, j \in DOMAIN intensityMap :
                  (Dist2(point, i % width, i \div width)
                      <= Dist2(point, j % width, j \div width))
                  => intensityMap[i] >= intensityMap[j]

\* C7: in the overlay, a pixel of intensity 0 is fully transparent black, no
\* alpha exceeds 180, and a pixel of accumulated intensity 1 or more is pure
\* red with alpha 180.
C7_ColorMapping ==
    stage = "colorized" =>
        \A i \in DOMAIN intensityMap :
            /\ intensityMap[i] = 0 => data[i] = <<0, 0, 0, 0>>
            /\ data[i][4] <= MaxAlpha
            /\ intensityMap[i] >= One => data[i] = <<255, 0, 0, MaxAlpha>>

\* C7 witness: an overlay with a pixel of accumulated intensity above 1, red.
C7_Witness ==
    /\ stage = "colorized"
    /\ \E i \in DOMAIN intensityMap : intensityMap[i] > One /\ data[i][1] = 255

\* C10: the intensity map depends on the points processed only through how
\* often each occurred, not on their order: every pixel holds the sum of what
\* each point alone adds to it, capped at 5.0 once.
C10_OrderIndependent ==
    \A i \in DOMAIN intensityMap : intensityMap[i] = Min(SumOfSingles(i), Cap)

\* C10 witness: two different points were processed, one of them at least
\* twice, and their sum exceeds 5.0 at a pixel, so that the cap has acted.
C10_Witness ==
    /\ \E p, q \in PointSet : p # q /\ seen[p] > 1 /\ seen[q] > 0
    /\ \E i \in DOMAIN intensityMap : SumOfSingles(i) > Cap

-----------------------------------------------------------------------------
(* Properties of the handler, checked under Spec *)

InFlight(r) == pc[r] \notin {"readBody", "done"}

\* C1: a request that launched a browser has ended only with that browser
\* process terminated, on every path, a rejected browser.close included.
C1_BrowserTerminated ==
    \A r \in Requests :
        (pc[r] = "done" /\ hist[r].launches > 0) => ~browsers[browser[r]].running

\* C2: every failure of a request is answered by the one generic failure:
\* status 500 with the message "Failed to capture screenshot".
C2_GenericFailure ==
    \A r \in Requests :
        (pc[r] = "done" /\ hist[r].failed # "none") => result[r] = GenericFailure

\* a body that is not of the request schema, in the words of the claim
WrongType(val, type) == val.t # type
Malformed(b) ==
    \/ WrongType(b.url, "string")
    \/ WrongType(b.width, "number")
    \/ WrongType(b.height, "number")
    \/ /\ b.points.t # "undefined"
       /\ \/ b.points.t # "array"
          \/ \E i \in 1 .. Len(b.points.v) :
                \/ b.points.v[i].t # "object"
                \/ b.points.v[i].v[1].t # "number"
                \/ b.points.v[i].v[2].t # "number"

\* C3: a request whose body fails the schema ends in the validation error and
\* never launches a browser: it has no launch, no browser and no process.
C3_NoLaunchOnInvalid ==
    \A r \in Requests :
        (pc[r] # "readBody" /\ hist[r].failed # "readBody" /\ Malformed(body[r])) =>
            /\ pc[r] = "done"
            /\ result[r] = Thrown("ZodError")
            /\ hist[r].launches = 0
            /\ browser[r] = 0
            /\ \A b \in DOMAIN browsers : browsers[b].launchedBy # r

\* C3 witness: a request with a malformed body has ended while another request
\* has launched its browser.
C3_Witness ==
    \E r, o \in Requests :
        /\ pc[r] = "done" /\ Malformed(body[r]) /\ hist[r].failed = "parse"
        /\ hist[o].launches = 1

\* C4: a request whose page.goto rejected ends with browser.close called
\* exactly once, one launch, one navigation, no image, and the generic failure.
C4_NavigationFailure ==
    \A r \in Requests :
        (pc[r] = "done" /\ hist[r].failed = "navigation") =>
            /\ hist[r].closes = 1
            /\ hist[r].launches = 1
            /\ hist[r].gotos = 1
            /\ result[r] = GenericFailure

\* the points field is absent or an empty list
NoPoints(b) == b.points.t = "undefined" \/ b.points = Arr(<<>>)

\* C8: with points absent or empty, createHeatmapOverlay is not called, no
\* overlay is drawn, and the image is the screenshot unchanged.
C8_NoOverlayWithoutPoints ==
    \A r \in Requests :
        (pc[r] = "close" /\ NoPoints(body[r])) =>
            /\ hist[r].overlays = 0
            /\ hist[r].draws = 0
            /\ final[r] = shot[r]

\* C8 as amended: with points absent, createHeatmapOverlay is not called and
\* no overlay is drawn; with points an empty list it is called once and its
\* overlay, fully transparent, is drawn; in both cases the image composed, and
\* the image returned, is the screenshot unchanged.  The overlay stage runs
\* exactly when points is present, empty or not.
C8_OverlayWheneverPointsPresent ==
    \A r \in Requests :
        /\ pc[r] = "close" =>
              /\ body[r].points.t = "undefined" =>
                    hist[r].overlays = 0 /\ hist[r].draws = 0
              /\ body[r].points.t = "array" =>
                    hist[r].overlays = 1 /\ hist[r].draws = 1
              /\ NoPoints(body[r]) => final[r] = shot[r]
        /\ (pc[r] = "done" /\ result[r].kind = "ok" /\ NoPoints(body[r])) =>
              \E i \in 1 .. Len(ShotList) : result[r].image = ShotList[i]

\* C8 witness: a request with an empty points list is about to return; the
\* overlay was made and drawn, and the image is the screenshot.
C8_Witness ==
    \E r \in Requests :
        /\ pc[r] = "close"
        /\ body[r].points = Arr(<<>>)
        /\ hist[r].overlays = 1 /\ hist[r].draws = 1
        /\ final[r] = shot[r]

\* C9: every browser process is used and closed by the request that launched
\* it only; a request launches at most one browser, exactly one once it is in
\* its try block, and no two requests hold the same browser.
C9_BrowserOwnedByRequest ==
    /\ \A b \in DOMAIN browsers : browsers[b].usedBy \subseteq {browsers[b].launchedBy}
    /\ \A r \in Requests :
          /\ hist[r].launches <= 1
          /\ (InFlight(r) /\ pc[r] # "launch") =>
                /\ hist[r].launches = 1
                /\ browser[r] \in DOMAIN browsers
                /\ browsers[browser[r]].launchedBy = r
    /\ \A r, o \in Requests : (r # o /\ browser[r] # 0) => browser[r] # browser[o]

\* C9 witness: two requests are in flight at once, each has used its own
\* running browser.
C9_Witness ==
    \E r, o \in Requests :
        /\ r # o
        /\ InFlight(r) /\ InFlight(o)
        /\ browser[r] \in DOMAIN browsers /\ browser[o] \in DOMAIN browsers
        /\ browsers[browser[r]].running /\ browsers[browser[o]].running
        /\ browsers[browser[r]].usedBy = {r} /\ browsers[browser[o]].usedBy = {o}

====
